---- MODULE Spec2Model ----
(***************************************************************************)
(* HomGar integration: the cloud API client and the payload decoders       *)
(* (homgar_api.py), the configuration wizard (config_flow.py) and the      *)
(* entry life cycle (__init__.py) as state machines.                       *)
(*                                                                         *)
(* Time is counted in milliseconds since the epoch.  A Python value that   *)
(* may be None is a string equal to None (tokens) or a tuple that is empty *)
(* for None and holds the number otherwise (instants, optional fields).    *)
(***************************************************************************)
EXTENDS Integers, Sequences, FiniteSets, TLC

VARIABLES client, now, procs, flow, entries, hass, life, dec, last

vars == <<client, now, procs, flow, entries, hass, life, dec, last>>

---------------------------------------------------------------------------
\* Bounds of the model.

\* Configuration entries the host keeps.
MaxEntries == 2

\* Failed GETs are counted up to this number.
MaxFails == 2

\* timedelta(minutes=5), in milliseconds.
Margin == 300000
\* ts_server / 1000 and timedelta(seconds=...): milliseconds per second.
MsPerSec == 1000
\* resp.status of a successful request.
HTTP_OK == 200

\* Concurrent invocations on the one client.
Procs == {1, 2}

\* The caller whose invocations run one after the other.
Main == 1

\* The instants the wall clock is read at, in milliseconds.
Instants == {0, 500, 1000, 400000}

---------------------------------------------------------------------------
\* Python values.

None == "None"
NoTime == <<>>
Nothing == <<>>

\* Truthiness of an optional string: None and "" are falsy.
Truthy(s) == s # None /\ s # ""

\* int(x) of a number of seconds given in milliseconds: truncation toward 0.
IntSeconds(ms) == IF ms >= 0 THEN ms \div MsPerSec ELSE -((-ms) \div MsPerSec)

---------------------------------------------------------------------------
\* HomGarClient: token state helpers.

\* HomGarClient.__init__: no token held.
NewClient == [token |-> None, refresh_token |-> None, expires_at |-> NoTime]

\* restore_tokens: an absent expiry leaves the held expiry as it is.
restore_tokens(c, data) ==
    [token |-> data.token,
     refresh_token |-> data.refresh_token,
     expires_at |-> IF data.token_expires_at # NoTime
                    THEN <<data.token_expires_at[1] * MsPerSec>>
                    ELSE c.expires_at]

\* export_tokens: the expiry as int(timestamp()).
export_tokens(c) ==
    [token |-> c.token,
     refresh_token |-> c.refresh_token,
     token_expires_at |-> IF c.expires_at # NoTime
                          THEN <<IntSeconds(c.expires_at[1])>>
                          ELSE NoTime]

\* A mutant of token_valid: the margin compared with <=.
token_valid_inclusive(c, t) ==
    IF ~Truthy(c.token) \/ c.expires_at = NoTime
    THEN FALSE
    ELSE t <= c.expires_at[1] - Margin

\* _token_valid at wall-clock time t.
token_valid(c, t) ==
    IF ~Truthy(c.token) \/ c.expires_at = NoTime
    THEN FALSE
    ELSE t < c.expires_at[1] - Margin

---------------------------------------------------------------------------
\* What the vendor cloud can answer.

Tokens == {"", "tA", "tB"}
RefreshTokens == {None, "rA"}
\* data.tokenExpired, in seconds, when present.
TokenExpiredValues == {<<>>, <<300>>, <<301>>}
\* ts, in milliseconds, when present.
TsValues == {<<>>, <<0>>, <<1500>>}
\* data of a GET answer: a list of home ids.
DataValues == {<<>>, <<1>>}

\* kind "http": a response arrived; otherwise the exception the transport
\* raised (aiohttp.ClientError, or asyncio.TimeoutError which is none).
TransportErrors == {"ClientError", "TimeoutError"}

LoginBody ==
    [kind |-> "http", status |-> HTTP_OK, code |-> <<0>>, hasData |-> TRUE,
     hasToken |-> TRUE, token |-> "tA", refreshToken |-> None,
     tokenExpired |-> <<>>, ts |-> <<>>]

LoginAccepted ==
    {[LoginBody EXCEPT !.token = t, !.refreshToken = r,
                       !.tokenExpired = e, !.ts = s] :
        t \in Tokens, r \in RefreshTokens,
        e \in TokenExpiredValues, s \in TsValues}

LoginOdd ==
    {[LoginBody EXCEPT !.status = 500],
     [LoginBody EXCEPT !.status = 500, !.code = <<1>>, !.hasData = FALSE],
     [LoginBody EXCEPT !.code = <<1>>],
     [LoginBody EXCEPT !.code = <<>>],
     [LoginBody EXCEPT !.hasData = FALSE],
     [LoginBody EXCEPT !.hasToken = FALSE]}

LoginResponses ==
    LoginAccepted \cup LoginOdd \cup
    {[LoginBody EXCEPT !.kind = k] : k \in TransportErrors}

GetBody ==
    [kind |-> "http", status |-> HTTP_OK, code |-> <<0>>, hasData |-> TRUE,
     data |-> <<>>]

GetResponses ==
    {[GetBody EXCEPT !.status = s, !.code = c, !.hasData = h, !.data = d] :
        s \in {HTTP_OK, 500}, c \in {<<0>>, <<1>>, <<>>},
        h \in BOOLEAN, d \in DataValues}
    \cup {[GetBody EXCEPT !.kind = k] : k \in TransportErrors}

\* Snapshots restore_tokens is given (config entry data).
Snapshots ==
    {[token |-> t, refresh_token |-> None, token_expires_at |-> e] :
        t \in {None, "tA"}, e \in {NoTime, <<301>>}}

---------------------------------------------------------------------------
\* One invocation of a public call of the client: a coroutine.  pc is where
\* it is suspended; logins and gets count the requests it has issued; auth
\* is the auth header of its GET in flight; result, msg and ret are what its
\* caller gets.  had and seen are history: the token state the invocation
\* found when it began, and the kind of the last response it received.

Ops == {"ensure_logged_in", "list_homes", "get_devices_by_hid",
        "get_device_status"}

IdleProc ==
    [pc |-> "idle", op |-> "none", logins |-> 0, gets |-> 0, auth |-> None,
     result |-> "none", msg |-> "", ret |-> Nothing,
     had |-> "none", seen |-> "none"]

\* The token state found at time t, in the words of the token-validity rule.
Found(c, t) ==
    IF ~Truthy(c.token) \/ c.expires_at = NoTime THEN "absent"
    ELSE IF c.expires_at[1] < t + Margin THEN "inside"
    ELSE IF c.expires_at[1] = t + Margin THEN "edge"
    ELSE IF c.expires_at[1] < t + Margin + MsPerSec THEN "between"
    ELSE "outside"

\* The kind of a login response.
LoginKind(r) ==
    IF r.kind # "http" THEN "login_transport"
    ELSE IF r.status # HTTP_OK THEN "login_status"
    ELSE IF r.code # <<0>> THEN "login_code"
    ELSE IF ~r.hasData THEN "login_nodata"
    ELSE IF ~r.hasToken THEN "login_notoken"
    ELSE "login_accepted"

\* The kind of a GET response.
GetKind(r) ==
    IF r.kind # "http" THEN "get_transport"
    ELSE IF r.status # HTTP_OK THEN "get_status"
    ELSE IF r.code # <<0>> THEN "get_code"
    ELSE "get_accepted"

\* An exception leaves the coroutine.
raise(pr, exc, msg) ==
    [pr EXCEPT !.pc = "done", !.result = exc, !.msg = msg, !.auth = None]

\* The coroutine returns v.
return(pr, v) ==
    [pr EXCEPT !.pc = "done", !.result = "ok", !.ret = <<v>>, !.auth = None]

\* _login up to its suspension in session.post.
post_login(pr) == [pr EXCEPT !.pc = "login_wait", !.logins = @ + 1]

\* _auth_headers and session.get: the GET carries the token held now.
send_get(pr, c) ==
    IF ~Truthy(c.token)
    THEN raise(pr, "HomGarApiError", "Token not available")
    ELSE [pr EXCEPT !.pc = "get_wait", !.auth = c.token, !.gets = @ + 1]

\* What follows `await self.ensure_logged_in()` in the public call.
after_ensure(pr, c) ==
    IF pr.op = "ensure_logged_in" THEN return(pr, <<>>) ELSE send_get(pr, c)

\* ensure_logged_in, and the caller's code up to the next suspension.
ensure_logged_in(pr, c, t) ==
    IF token_valid(c, t) THEN after_ensure(pr, c) ELSE post_login(pr)

\* base of the expiry: `if ts_server:` takes the wall clock for ts = 0 too.
login_base(r, t) == IF r.ts # <<>> /\ r.ts[1] # 0 THEN r.ts[1] ELSE t

\* d.get("tokenExpired", 0)
token_expired_secs(r) == IF r.tokenExpired # <<>> THEN r.tokenExpired[1] ELSE 0

\* A mutant of login_store: a token already held is kept.
login_store_first(c, r, t) ==
    IF Truthy(c.token) THEN c
    ELSE [token |-> r.token,
          refresh_token |-> r.refreshToken,
          expires_at |->
              <<login_base(r, t) + token_expired_secs(r) * MsPerSec>>]

\* The assignments of _login after an accepted response.
login_store(c, r, t) ==
    [token |-> r.token,
     refresh_token |-> r.refreshToken,
     expires_at |-> <<login_base(r, t) + token_expired_secs(r) * MsPerSec>>]

\* A mutant of login_rejected: the code field is not looked at.
login_rejected_nocode(r) == r.status # HTTP_OK \/ ~r.hasData

\* The two checks of _login that raise HomGarApiError.
login_rejected(r) == r.status # HTTP_OK \/ r.code # <<0>> \/ ~r.hasData

\* A mutant of login_failed: the login is tried again.
login_failed_retry(pr, exc, msg) ==
    IF pr.logins < 3 THEN post_login(pr) ELSE raise(pr, exc, msg)

\* A failure inside _login propagates through ensure_logged_in to the caller.
login_failed(pr, exc, msg) == raise(pr, exc, msg)

\* _login from the arrival of the response r at time t, and the caller's
\* code that follows without suspension: the client and the coroutine after.
login(c, pr, r, t) ==
    IF r.kind # "http"
    THEN [client |-> c, proc |-> login_failed(pr, r.kind, "transport")]
    ELSE IF login_rejected(r)
    THEN [client |-> c,
          proc |-> login_failed(pr, "HomGarApiError",
                                IF r.status # HTTP_OK THEN "Login HTTP"
                                ELSE "Login failed")]
    ELSE IF ~r.hasToken
    THEN [client |-> c, proc |-> login_failed(pr, "KeyError", "token")]
    ELSE [client |-> login_store(c, r, t),
          proc |-> after_ensure(pr, login_store(c, r, t))]

\* A mutant of get_failed: the code field is not looked at.
get_failed_nocode(r) == r.status # HTTP_OK

\* The two checks of a GET call that raise HomGarApiError.
get_failed(r) == r.status # HTTP_OK \/ r.code # <<0>>

\* list_homes, get_devices_by_hid, get_device_status from the arrival of r.
get_finish(pr, r) ==
    IF r.kind # "http" THEN raise(pr, r.kind, "transport")
    ELSE IF get_failed(r)
    THEN raise(pr, "HomGarApiError",
               IF r.status # HTTP_OK THEN "GET HTTP" ELSE "GET failed")
    ELSE return(pr, IF r.hasData THEN r.data ELSE <<>>)

---------------------------------------------------------------------------
\* The client driven by concurrent callers.

\* One run of the configuration wizard (HomGarConfigFlow).  step is the form
\* shown or how the flow ended; busy: a submission of step user is running;
\* errors is errors["base"] of the form shown; email is the email submitted;
\* saved is the per-flow state kept for step select_homes.  dup, made and
\* granted are history: the email was configured when it was submitted, the
\* submission constructed a client, and what the last accepted login of
\* that client granted.
NoFlow ==
    [step |-> "none", busy |-> FALSE, errors |-> "", email |-> "",
     reason |-> "", saved |-> Nothing,
     dup |-> FALSE, made |-> FALSE, granted |-> Nothing]

\* The configuration entries the life cycle is run for.
EntryIds == {"e1", "e2"}

\* The host: data is hass.data, empty while it has no key DOMAIN and else
\* holding hass.data[DOMAIN], a map from entry ids to records; sensors are
\* the entries whose sensor platform is active.
NoHass == [data |-> <<>>, sensors |-> {}]

\* One entry's life cycle.  pc is where async_setup_entry or
\* async_unload_entry is suspended ("rest": neither runs); client is the
\* client the running start-up constructed; log lists the steps of the
\* start-up taken so far.  The other fields are history: what the host
\* answered to the last first refresh, to the last activation and to the
\* last unloading, how the last start-up ended, whether a first refresh
\* has succeeded since the last successful shutdown, whether a successful
\* shutdown has followed the last start-up, and the exception the last
\* invocation raised.
RestJob ==
    [pc |-> "rest", client |-> NewClient, log |-> <<>>,
     refreshed |-> "none", forwarded |-> "none", unloaded |-> "none",
     setup |-> "none", passed |-> FALSE, shut |-> FALSE, exc |-> ""]

\* History of the client: the response of the last accepted login, when
\* and by which caller it was received, the other callers whose logins
\* were in flight then, whether it had itself been in flight when the
\* accepted login before it arrived, and how many GETs have failed on a
\* status or a code since the token state was last set (counted up to
\* MaxFails).
NoLast ==
    [resp |-> <<>>, at |-> 0, by |-> 0, waiting |-> {},
     overlapped |-> FALSE, fails |-> 0]

\* The history after the caller p has received the accepted login r at t.
accepted_login(l, ps, p, r, t) ==
    [resp |-> <<r>>, at |-> t, by |-> p,
     waiting |-> {q \in Procs \ {p} : ps[q].pc = "login_wait"},
     overlapped |-> p \in l.waiting, fails |-> 0]

\* No payload has been handed to a decoder.
NoDecode == [raw |-> <<>>, fn |-> "none", out |-> <<>>]

Init ==
    /\ client = NewClient
    /\ now = 0
    /\ procs = [p \in Procs |-> IdleProc]
    /\ flow = NoFlow
    /\ entries = <<>>
    /\ hass = NoHass
    /\ life = [e \in EntryIds |-> RestJob]
    /\ dec = NoDecode
    /\ last = NoLast

\* The wall clock moves.
Tick(t) ==
    /\ t > now
    /\ now' = t
    /\ UNCHANGED <<client, procs, flow, entries, hass, life, dec, last>>

\* restore_tokens(data) on the client.
Restore(data) ==
    /\ client' = restore_tokens(client, data)
    /\ client' # client
    /\ last' = NoLast
    /\ UNCHANGED <<now, procs, flow, entries, hass, life, dec>>

\* A caller invokes the public call o.
Call(p, o) ==
    /\ procs[p].pc = "idle"
    /\ procs' = [procs EXCEPT ![p] =
          ensure_logged_in([IdleProc EXCEPT !.op = o,
                                            !.had = Found(client, now)],
                           client, now)]
    /\ UNCHANGED <<client, now, flow, entries, hass, life, dec, last>>

\* The login response r arrives: the coroutine p runs on.
LoginStep(p, r) ==
    /\ procs[p].pc = "login_wait"
    /\ LET out == login(client, [procs[p] EXCEPT !.seen = LoginKind(r)],
                        r, now)
       IN /\ client' = out.client
          /\ procs' = [procs EXCEPT ![p] = out.proc]

LoginDone(p, r) ==
    /\ LoginStep(p, r)
    /\ last' = IF LoginKind(r) = "login_accepted"
               THEN accepted_login(last, procs, p, r, now) ELSE last
    /\ UNCHANGED <<now, flow, entries, hass, life, dec>>

\* A mutant of GetDone: a failed GET makes the client forget its token.
GetDone_forgets(p, r) ==
    /\ procs[p].pc = "get_wait"
    /\ procs' = [procs EXCEPT ![p] =
          get_finish([procs[p] EXCEPT !.seen = GetKind(r)], r)]
    /\ client' = IF get_failed(r) THEN NewClient ELSE client
    /\ last' = [last EXCEPT !.fails =
          IF GetKind(r) \in {"get_status", "get_code"} /\ @ < MaxFails
          THEN @ + 1 ELSE @]
    /\ UNCHANGED <<now, flow, entries, hass, life, dec>>

\* The GET response r arrives: the coroutine p runs on.
GetDone(p, r) ==
    /\ procs[p].pc = "get_wait"
    /\ procs' = [procs EXCEPT ![p] =
          get_finish([procs[p] EXCEPT !.seen = GetKind(r)], r)]
    /\ last' = [last EXCEPT !.fails =
          IF GetKind(r) \in {"get_status", "get_code"} /\ @ < MaxFails
          THEN @ + 1 ELSE @]
    /\ UNCHANGED <<client, now, flow, entries, hass, life, dec>>

\* The caller takes the outcome of the invocation.
Finish(p) ==
    /\ procs[p].pc = "done"
    /\ procs' = [procs EXCEPT ![p] = IdleProc]
    /\ UNCHANGED <<client, now, flow, entries, hass, life, dec, last>>

Next ==
    \/ \E t \in Instants : Tick(t)
    \/ \E data \in Snapshots : Restore(data)
    \/ \E o \in Ops : Call(Main, o)
    \/ \E r \in LoginResponses : LoginDone(Main, r)
    \/ \E r \in GetResponses : GetDone(Main, r)
    \/ Finish(Main)

Spec == Init /\ [][Next]_vars

\* Two callers use one client concurrently.  The responses are a part of
\* those above: accepted logins that differ in token and lifetime and one
\* rejected login, an accepted and a rejected GET.
ConcOps == {"ensure_logged_in", "list_homes"}

ConcLogins ==
    {[LoginBody EXCEPT !.token = t, !.tokenExpired = x] :
        t \in {"tA", "tB"}, x \in {<<>>, <<301>>}}
    \cup {[LoginBody EXCEPT !.status = 500]}

ConcGets == {GetBody, [GetBody EXCEPT !.status = 500]}

NextConc ==
    \/ \E t \in Instants : Tick(t)
    \/ \E p \in Procs, o \in ConcOps : Call(p, o)
    \/ \E p \in Procs, r \in ConcLogins : LoginDone(p, r)
    \/ \E p \in Procs, r \in ConcGets : GetDone(p, r)
    \/ \E p \in Procs : Finish(p)

SpecConc == Init /\ [][NextConc]_vars

---------------------------------------------------------------------------
\* The configuration wizard, with the client it constructs.

Emails == {"a@x", "b@x"}

\* The form of step user, as async_step_user(None) shows it.
UserForm == [NoFlow EXCEPT !.step = "user"]

\* Some entry of the host has this email.
Configured(es, email) == \E i \in 1..Len(es) : es[i].email = email

\* A mutant of already_configured: the unique id is never looked up.
already_configured_never(es, email) == FALSE

\* async_set_unique_id and _abort_if_unique_id_configured: the unique id
\* "homgar_<email>" belongs to an entry.
already_configured(es, email) == \E i \in 1..Len(es) : es[i].email = email

\* A mutant of no_homes: an empty list is let through.
no_homes_never(homes) == FALSE

\* `if not homes:`
no_homes(homes) == homes = <<>>

\* The mapping of the exceptions async_step_user catches to errors["base"];
\* "" for an exception it does not catch.
user_error(exc) ==
    IF exc = "HomGarApiError" THEN "auth_failed"
    ELSE IF exc = "ClientError" THEN "cannot_connect"
    ELSE ""

\* The configuration entry async_step_select_homes creates.
entry_data(f, hid, c) ==
    [email |-> f.saved[1].email,
     hids |-> <<hid>>,
     token |-> export_tokens(c).token,
     refresh_token |-> export_tokens(c).refresh_token,
     token_expires_at |-> export_tokens(c).token_expires_at]

\* The host opens the wizard: async_step_user(None).  A flow that ended is
\* discarded with its client.
FlowStart ==
    /\ flow.step \in {"none", "create_entry", "abort", "error"}
    /\ procs[Main].pc = "idle"
    /\ flow' = UserForm
    /\ client' = NewClient
    /\ UNCHANGED <<now, procs, entries, hass, life, dec, last>>

\* Step user is submitted: the guard against a second entry, the new client
\* and `await client.ensure_logged_in()` up to its suspension.
UserSubmit(email) ==
    /\ flow.step = "user"
    /\ ~flow.busy
    /\ IF already_configured(entries, email)
       THEN /\ flow' = [flow EXCEPT !.step = "abort",
                                    !.reason = "already_configured",
                                    !.errors = "", !.email = email,
                                    !.dup = Configured(entries, email),
                                    !.made = FALSE]
            /\ UNCHANGED <<client, procs>>
       ELSE /\ client' = NewClient
            /\ procs' = [procs EXCEPT ![Main] =
                  ensure_logged_in(
                      [IdleProc EXCEPT !.op = "ensure_logged_in",
                                       !.had = Found(NewClient, now)],
                      NewClient, now)]
            /\ flow' = [flow EXCEPT !.busy = TRUE, !.errors = "",
                                    !.email = email,
                                    !.dup = Configured(entries, email),
                                    !.made = TRUE, !.granted = Nothing]
    /\ UNCHANGED <<now, entries, hass, life, dec, last>>

\* A login response arrives in the flow's client.
UserLoginDone(r) ==
    /\ flow.busy
    /\ LoginStep(Main, r)
    /\ flow' = [flow EXCEPT !.granted =
          IF LoginKind(r) = "login_accepted"
          THEN <<[token |-> r.token,
                  refresh_token |-> r.refreshToken,
                  expires_ms |-> login_base(r, now)
                                 + token_expired_secs(r) * MsPerSec]>>
          ELSE @]
    /\ UNCHANGED <<now, entries, hass, life, dec, last>>

\* ensure_logged_in returned: `homes = await client.list_homes()`.
UserListHomes ==
    /\ flow.busy
    /\ procs[Main].pc = "done"
    /\ procs[Main].op = "ensure_logged_in"
    /\ procs[Main].result = "ok"
    /\ procs' = [procs EXCEPT ![Main] =
          ensure_logged_in([IdleProc EXCEPT !.op = "list_homes",
                                            !.had = Found(client, now)],
                           client, now)]
    /\ UNCHANGED <<client, now, flow, entries, hass, life, dec, last>>

\* One of the two calls raised: the except clauses, or the exception leaves
\* async_step_user and ends the flow.
UserFailed ==
    /\ flow.busy
    /\ procs[Main].pc = "done"
    /\ procs[Main].result # "ok"
    /\ flow' = IF user_error(procs[Main].result) # ""
               THEN [flow EXCEPT !.busy = FALSE,
                                 !.errors = user_error(procs[Main].result)]
               ELSE [flow EXCEPT !.busy = FALSE, !.step = "error",
                                 !.reason = procs[Main].result]
    /\ procs' = [procs EXCEPT ![Main] = IdleProc]
    /\ UNCHANGED <<client, now, entries, hass, life, dec, last>>

\* list_homes returned: the else clause of the try.
UserHomes ==
    /\ flow.busy
    /\ procs[Main].pc = "done"
    /\ procs[Main].op = "list_homes"
    /\ procs[Main].result = "ok"
    /\ flow' = IF no_homes(procs[Main].ret[1])
               THEN [flow EXCEPT !.busy = FALSE, !.errors = "no_homes"]
               ELSE [flow EXCEPT !.busy = FALSE, !.step = "select_homes",
                                 !.saved = <<[email |-> flow.email,
                                              homes |-> procs[Main].ret[1]]>>]
    /\ procs' = [procs EXCEPT ![Main] = IdleProc]
    /\ UNCHANGED <<client, now, entries, hass, life, dec, last>>

\* Step select_homes is submitted with the selection sel (<<>>: none), one
\* of the options vol.In(home_options) lets through.
SelectSubmit(sel) ==
    /\ flow.step = "select_homes"
    /\ sel \in {<<>>} \cup {<<flow.saved[1].homes[i]>> :
                               i \in 1..Len(flow.saved[1].homes)}
    /\ IF sel = <<>>
       THEN /\ flow' = [flow EXCEPT !.errors = "select_at_least_one"]
            /\ UNCHANGED entries
       ELSE /\ Len(entries) < MaxEntries
            /\ entries' = Append(entries, entry_data(flow, sel[1], client))
            /\ flow' = [flow EXCEPT !.step = "create_entry", !.errors = ""]
    /\ UNCHANGED <<client, now, procs, hass, life, dec, last>>

\* What the select control can submit.
Selections == {<<>>} \cup {<<d[1]>> : d \in DataValues \ {<<>>}}

\* What the vendor cloud answers to the wizard's logins.
FlowLoginResponses == {r \in LoginResponses : r.token # "tB"}

NextFlow ==
    \/ \E t \in Instants : Tick(t)
    \/ FlowStart
    \/ \E email \in Emails : UserSubmit(email)
    \/ \E r \in FlowLoginResponses : UserLoginDone(r)
    \/ UserListHomes
    \/ \E r \in GetResponses : GetDone(Main, r)
    \/ UserFailed
    \/ UserHomes
    \/ \E sel \in Selections : SelectSubmit(sel)

SpecFlow == Init /\ [][NextFlow]_vars

---------------------------------------------------------------------------
\* The entry life cycle: async_setup_entry and async_unload_entry.

\* The steps of a start-up, in the order of async_setup_entry.
SetupOrder == <<"restore", "coordinator", "refresh", "record", "sensor">>

\* hass.data[DOMAIN], empty when hass.data has no key DOMAIN.
Records(h) == IF h.data = <<>> THEN <<>> ELSE h.data[1]

\* hass.data[DOMAIN] holds a record under the entry id e.
HasRecord(h, e) == h.data # <<>> /\ e \in DOMAIN h.data[1]

\* hass.data.setdefault(DOMAIN, {}) and hass.data[DOMAIN][e] = rec.
put_record(h, e, rec) ==
    [h EXCEPT !.data =
        <<[x \in DOMAIN Records(h) \cup {e} |->
              IF x = e THEN rec ELSE Records(h)[x]]>>]

\* hass.data[DOMAIN].pop(e, None), where hass.data has the key DOMAIN.
pop_record(h, e) ==
    [h EXCEPT !.data =
        <<[x \in DOMAIN Records(h) \ {e} |-> Records(h)[x]]>>]

\* async_setup_entry up to its suspension in the first refresh: the client
\* with the tokens of the entry data restored, and the coordinator.
setup_entry(job, data) ==
    [job EXCEPT !.pc = "refresh",
                !.client = restore_tokens(NewClient, data),
                !.log = <<"restore", "coordinator", "refresh">>,
                !.exc = ""]

\* A mutant of first_refreshed: a failed first refresh is swallowed.
first_refreshed_anyway(h, job, e, ok) ==
    [hass |-> put_record(h, e, [client |-> job.client, coordinator |-> e]),
     job |-> [job EXCEPT !.pc = "forward",
                         !.log = job.log \o <<"record", "sensor">>]]

\* async_setup_entry from the end of the first refresh (ok: it succeeded)
\* to its suspension in async_forward_entry_setups.
first_refreshed(h, job, e, ok) ==
    IF ~ok
    THEN [hass |-> h,
          job |-> [job EXCEPT !.pc = "rest", !.exc = "ConfigEntryNotReady"]]
    ELSE [hass |-> put_record(h, e, [client |-> job.client,
                                     coordinator |-> e]),
          job |-> [job EXCEPT !.pc = "forward",
                              !.log = job.log \o <<"record", "sensor">>]]

\* async_setup_entry from the end of async_forward_entry_setups: it returns
\* True, or the exception of the host leaves it.
forwarded(job, ok) ==
    IF ok THEN [job EXCEPT !.pc = "rest"]
    ELSE [job EXCEPT !.pc = "rest", !.exc = "forward"]

\* A mutant of unloaded: the whole map of the domain is dropped.
unloaded_domain(h, e, unload_ok) ==
    IF unload_ok THEN [h EXCEPT !.data = <<>>] ELSE h

\* async_unload_entry from the end of async_unload_platforms; without the
\* key DOMAIN the pop raises KeyError and hass.data stays as it is.
unloaded(h, e, unload_ok) ==
    IF unload_ok /\ h.data # <<>> THEN pop_record(h, e) ELSE h

\* The host starts an entry up with the entry data `data`.
SetupBegin(e, data) ==
    /\ life[e].pc = "rest"
    /\ life' = [life EXCEPT ![e] =
          [setup_entry(life[e], data) EXCEPT !.setup = "running",
                                             !.refreshed = "none",
                                             !.forwarded = "none",
                                             !.shut = FALSE]]
    /\ UNCHANGED <<client, now, procs, flow, entries, hass, dec, last>>

\* The first refresh of the coordinator ends.
RefreshDone(e, ok) ==
    /\ life[e].pc = "refresh"
    /\ LET out == first_refreshed(hass, life[e], e, ok)
       IN /\ hass' = out.hass
          /\ life' = [life EXCEPT ![e] =
                [out.job EXCEPT
                    !.refreshed = IF ok THEN "ok" ELSE "failed",
                    !.setup = IF out.job.pc = "rest" THEN "failed" ELSE @,
                    !.passed = @ \/ ok]]
    /\ UNCHANGED <<client, now, procs, flow, entries, dec, last>>

\* The host has activated the sensor platform, or failed to.
ForwardDone(e, ok) ==
    /\ life[e].pc = "forward"
    /\ hass' = IF ok THEN [hass EXCEPT !.sensors = @ \cup {e}] ELSE hass
    /\ life' = [life EXCEPT ![e] =
          [forwarded(life[e], ok) EXCEPT
              !.forwarded = IF ok THEN "ok" ELSE "failed",
              !.setup = IF ok THEN "ok" ELSE "failed"]]
    /\ UNCHANGED <<client, now, procs, flow, entries, dec, last>>

\* The host shuts an entry down: async_unload_entry up to its suspension.
UnloadBegin(e) ==
    /\ life[e].pc = "rest"
    /\ life' = [life EXCEPT ![e] =
          [@ EXCEPT !.pc = "unloading", !.unloaded = "none", !.exc = ""]]
    /\ UNCHANGED <<client, now, procs, flow, entries, hass, dec, last>>

\* async_unload_platforms ends: the host unloaded the platforms, or not.
UnloadDone(e, unload_ok) ==
    /\ life[e].pc = "unloading"
    /\ hass' = [unloaded(hass, e, unload_ok) EXCEPT
                   !.sensors = IF unload_ok THEN @ \ {e} ELSE @]
    /\ life' = [life EXCEPT ![e] =
          [@ EXCEPT !.pc = "rest",
                    !.unloaded = IF unload_ok THEN "ok" ELSE "failed",
                    !.passed = IF unload_ok THEN FALSE ELSE @,
                    !.shut = @ \/ unload_ok,
                    !.exc = IF unload_ok /\ hass.data = <<>>
                            THEN "KeyError" ELSE ""]]
    /\ UNCHANGED <<client, now, procs, flow, entries, dec, last>>

NextLife ==
    \/ \E e \in EntryIds, data \in Snapshots : SetupBegin(e, data)
    \/ \E e \in EntryIds, ok \in BOOLEAN : RefreshDone(e, ok)
    \/ \E e \in EntryIds, ok \in BOOLEAN : ForwardDone(e, ok)
    \/ \E e \in EntryIds : UnloadBegin(e)
    \/ \E e \in EntryIds, ok \in BOOLEAN : UnloadDone(e, ok)

SpecLife == Init /\ [][NextLife]_vars

---------------------------------------------------------------------------
\* The telemetry decoders.  A payload is the sequence of its characters.

\* The hexadecimal digits, in the order of their values.
LowerHex ==
    <<"0", "1", "2", "3", "4", "5", "6", "7",
      "8", "9", "a", "b", "c", "d", "e", "f">>

UpperHex ==
    <<"0", "1", "2", "3", "4", "5", "6", "7",
      "8", "9", "A", "B", "C", "D", "E", "F">>

IsHex(c) == \E i \in 1..16 : LowerHex[i] = c \/ UpperHex[i] = c

HexVal(c) == (CHOOSE i \in 1..16 : LowerHex[i] = c \/ UpperHex[i] = c) - 1

\* Characters int() strips from both ends of its argument.
IsSpace(c) == c \in {" ", "\t"}

\* int(s, 16) for the two characters s = a b: two hex digits, a sign and
\* one hex digit, or one hex digit with white space before or after it;
\* the empty tuple stands for ValueError.
int16(a, b) ==
    IF IsHex(a) /\ IsHex(b) THEN <<16 * HexVal(a) + HexVal(b)>>
    ELSE IF a = "+" /\ IsHex(b) THEN <<HexVal(b)>>
    ELSE IF a = "-" /\ IsHex(b) THEN <<0 - HexVal(b)>>
    ELSE IF IsSpace(a) /\ IsHex(b) THEN <<HexVal(b)>>
    ELSE IF IsHex(a) /\ IsSpace(b) THEN <<HexVal(a)>>
    ELSE <<>>

\* The literal prefix "10#".
Prefix == <<"1", "0", "#">>

\* raw.startswith(pre)
startswith(raw, pre) ==
    Len(raw) >= Len(pre) /\ SubSeq(raw, 1, Len(pre)) = pre

\* _parse_homgar_payload: the list of the values of the two-character
\* slices after the prefix, or the ValueError it raises.
parse_homgar_payload(raw) ==
    IF raw = <<>> \/ ~startswith(raw, Prefix)
    THEN [error |-> "Unexpected payload format", bytes |-> <<>>]
    ELSE LET hex_str == SubSeq(raw, 4, Len(raw))
             vals == [i \in 1..(Len(hex_str) \div 2) |->
                         int16(hex_str[2 * i - 1], hex_str[2 * i])]
         IN IF Len(hex_str) % 2 # 0
            THEN [error |-> "Hex payload length must be even",
                  bytes |-> <<>>]
            ELSE IF \E i \in DOMAIN vals : vals[i] = <<>>
            THEN [error |-> "invalid literal for int()", bytes |-> <<>>]
            ELSE [error |-> "",
                  bytes |-> [i \in DOMAIN vals |-> vals[i][1]]]

\* b[i] of a Python list: indices start at 0.
At(b, i) == b[i + 1]

\* (hi << 8) | lo on Python integers, for lo below 256: a negative lo has
\* every bit from bit 8 upwards set, so the result is lo itself.
shl8_or(hi, lo) == IF lo < 0 THEN lo ELSE hi * 256 + lo

\* _le16
le16(b, index) == shl8_or(At(b, index + 1), At(b, index))

\* n / 10.0, held as the decimal number the resulting double prints as:
\* sign, whole part and tenths.
div10(n) ==
    LET m == IF n < 0 THEN 0 - n ELSE n
    IN [neg |-> n < 0, whole |-> m \div 10, tenths |-> m % 10]

\* _f10_to_c, held as the exact quotient num / den that the double
\* (raw_f10 / 10.0 - 32.0) / 1.8 approximates.
f10_to_c(raw_f10) == [num |-> raw_f10 - 320, den |-> 18]

\* b[1] - 256 if b[1] >= 128 else b[1]
signed8(v) == IF v >= 128 THEN v - 256 ELSE v

\* The marker bytes the decoders look for.
TAG_MOISTURE == 136
TAG_LUX == 198
TAG_FD == 253
TAG_TOTAL == 151

\* A decoder raised ValueError / returned a reading.
Raised(msg) == [error |-> msg, reading |-> <<>>]

Returned(r) == [error |-> "", reading |-> <<r>>]

decode_moisture_simple(raw) ==
    LET p == parse_homgar_payload(raw)
        b == p.bytes
    IN IF p.error # "" THEN Raised(p.error)
       ELSE IF Len(b) < 9 THEN Raised("Moisture simple payload too short")
       ELSE IF At(b, 5) # TAG_MOISTURE
       THEN Raised("Expected 0x88 moisture tag at b[5]")
       ELSE Returned([type |-> "moisture_simple",
                      rssi_dbm |-> signed8(At(b, 1)),
                      moisture_percent |-> At(b, 6),
                      battery_status_code |-> shl8_or(At(b, 7), At(b, 8)),
                      raw_bytes |-> b])

decode_moisture_full(raw) ==
    LET p == parse_homgar_payload(raw)
        b == p.bytes
    IN IF p.error # "" THEN Raised(p.error)
       ELSE IF Len(b) < 16 THEN Raised("Moisture full payload too short")
       ELSE IF At(b, 8) # TAG_MOISTURE
       THEN Raised("Expected 0x88 moisture tag at b[8]")
       ELSE IF At(b, 10) # TAG_LUX
       THEN Raised("Expected 0xC6 lux tag at b[10]")
       ELSE Returned([type |-> "moisture_full",
                      rssi_dbm |-> signed8(At(b, 1)),
                      moisture_percent |-> At(b, 9),
                      temperature_c |-> f10_to_c(le16(b, 6)),
                      temperature_f10 |-> le16(b, 6),
                      illuminance_lux |-> div10(le16(b, 11)),
                      illuminance_raw10 |-> le16(b, 11),
                      battery_status_code |-> shl8_or(At(b, 14), At(b, 15)),
                      raw_bytes |-> b])

decode_rain(raw) ==
    LET p == parse_homgar_payload(raw)
        b == p.bytes
    IN IF p.error # "" THEN Raised(p.error)
       ELSE IF Len(b) < 24 THEN Raised("Rain payload too short")
       ELSE IF ~(At(b, 3) = TAG_FD /\ At(b, 4) = 4)
       THEN Raised("Rain payload missing FD 04 at [3:5]")
       ELSE IF ~(At(b, 7) = TAG_FD /\ At(b, 8) = 5)
       THEN Raised("Rain payload missing FD 05 at [7:9]")
       ELSE IF ~(At(b, 11) = TAG_FD /\ At(b, 12) = 6)
       THEN Raised("Rain payload missing FD 06 at [11:13]")
       ELSE IF At(b, 17) # TAG_TOTAL
       THEN Raised("Rain payload missing 0x97 at b[17]")
       ELSE Returned([type |-> "rain",
                      rain_last_hour_mm |-> div10(le16(b, 5)),
                      rain_last_24h_mm |-> div10(le16(b, 9)),
                      rain_last_7d_mm |-> div10(le16(b, 13)),
                      rain_total_mm |-> div10(le16(b, 18)),
                      rain_last_hour_raw10 |-> le16(b, 5),
                      rain_last_24h_raw10 |-> le16(b, 9),
                      rain_last_7d_raw10 |-> le16(b, 13),
                      rain_total_raw10 |-> le16(b, 18),
                      battery_status_code |-> shl8_or(At(b, 22), At(b, 23)),
                      raw_bytes |-> b])

\* The payloads the decoders are run on.  Hex2 writes a byte as its two
\* hex digits and Encode a byte sequence as the payload that carries it.
Hex2(n) == <<UpperHex[(n \div 16) + 1], UpperHex[(n % 16) + 1]>>

RECURSIVE HexOf(_)
HexOf(bytes) ==
    IF bytes = <<>> THEN <<>> ELSE Hex2(Head(bytes)) \o HexOf(Tail(bytes))

Encode(bytes) == Prefix \o HexOf(bytes)

Lo(n) == n % 256

Hi(n) == n \div 256

\* The byte layouts of the three device models, as their docstrings give
\* them: rain with four raw values and a status field, moisture-only with
\* RSSI, moisture and status, and moisture with temperature and lux.
RainBytes(r, st) ==
    <<225, 0, 0, 253, 4, Lo(r[1]), Hi(r[1]), 253, 5, Lo(r[2]), Hi(r[2]),
      253, 6, Lo(r[3]), Hi(r[3]), 220, 1, 151, Lo(r[4]), Hi(r[4]),
      0, 0, Hi(st), Lo(st)>>

SimpleBytes(rssi, m, st) ==
    <<225, rssi, 0, 220, 1, 136, m, Hi(st), Lo(st)>>

FullBytes(rssi, t, m, lux, st) ==
    <<225, rssi, 0, 220, 1, 133, Lo(t), Hi(t), 136, m, 198,
      Lo(lux), Hi(lux), 0, Hi(st), Lo(st)>>

\* The values the fields of the layouts are filled with.
RainRaws == {<<25, 100, 400, 1000>>, <<0, 0, 0, 0>>, <<65535, 255, 256, 1>>}

StatusCodes == {1, 4095, 65295}

RssiBytes == {0, 5, 127, 128, 255}

MoistureBytes == {0, 42, 100, 101, 200, 255}

WellFormed ==
    {RainBytes(r, st) : r \in RainRaws, st \in StatusCodes}
    \cup {RainBytes(r, 4095) \o <<1, 2, 3, 4>> : r \in RainRaws}
    \cup {SimpleBytes(rs, m, 1) : rs \in RssiBytes, m \in MoistureBytes}
    \cup {SimpleBytes(5, 42, st) : st \in StatusCodes}
    \cup {FullBytes(rs, 725, m, 12345, 65295) :
             rs \in {5, 200}, m \in MoistureBytes}

\* The layouts that are varied slice by slice.
Varied ==
    {RainBytes(<<25, 100, 400, 1000>>, 65295), SimpleBytes(5, 42, 1),
     FullBytes(5, 725, 42, 12345, 65295)}

\* Two-character slices put in the place of one byte of a payload: another
\* byte, lower-case digits, signs, white space and characters that are no
\* hex digits.
Slices ==
    {<<"0", "0">>, <<"f", "d">>, <<"-", "1">>, <<"+", "8">>, <<" ", "7">>,
     <<"9", " ">>, <<"G", "G">>, <<"-", "G">>, <<"8", "_">>}

\* The payload raw with the slice of its byte k (from 0) replaced by s.
WithSlice(raw, k, s) ==
    [i \in 1..Len(raw) |->
        IF i = 2 * k + 4 THEN s[1] ELSE IF i = 2 * k + 5 THEN s[2]
        ELSE raw[i]]

Payloads ==
    {Encode(b) : b \in WellFormed}
    \cup UNION {{WithSlice(Encode(b), k, s) :
                    k \in 0..(Len(b) - 1), s \in Slices} : b \in Varied}
    \cup UNION {{Encode(SubSeq(b, 1, n)) :
                    n \in {0, 8, 15, 23} \cap 0..Len(b)} : b \in Varied}
    \cup {HexOf(b) : b \in Varied}
    \cup {<<"1", "1", "#">> \o HexOf(b) : b \in Varied}
    \cup {SubSeq(Encode(b), 1, 2 * Len(b) + 2) : b \in Varied}
    \cup {<<>>}

InitDecode ==
    /\ client = NewClient
    /\ now = 0
    /\ procs = [p \in Procs |-> IdleProc]
    /\ flow = NoFlow
    /\ entries = <<>>
    /\ hass = NoHass
    /\ life = [e \in EntryIds |-> RestJob]
    /\ dec \in {[raw |-> r, fn |-> "none", out |-> <<>>] : r \in Payloads}
    /\ last = NoLast

DecodeRain ==
    /\ dec.fn = "none"
    /\ dec' = [dec EXCEPT !.fn = "decode_rain",
                          !.out = <<decode_rain(dec.raw)>>]
    /\ UNCHANGED <<client, now, procs, flow, entries, hass, life, last>>

DecodeMoistureSimple ==
    /\ dec.fn = "none"
    /\ dec' = [dec EXCEPT !.fn = "decode_moisture_simple",
                          !.out = <<decode_moisture_simple(dec.raw)>>]
    /\ UNCHANGED <<client, now, procs, flow, entries, hass, life, last>>

DecodeMoistureFull ==
    /\ dec.fn = "none"
    /\ dec' = [dec EXCEPT !.fn = "decode_moisture_full",
                          !.out = <<decode_moisture_full(dec.raw)>>]
    /\ UNCHANGED <<client, now, procs, flow, entries, hass, life, last>>

NextDecode == DecodeRain \/ DecodeMoistureSimple \/ DecodeMoistureFull

SpecDecode == InitDecode /\ [][NextDecode]_vars

---------------------------------------------------------------------------
\* Properties.

GetOps == {"list_homes", "get_devices_by_hid", "get_device_status"}

\* The login responses the client is to reject.
RejectedLogins == {"login_status", "login_code", "login_nodata"}

\* The responses and transport outcomes after which a request has failed.
FailedRequests ==
    {"login_transport", "login_status", "login_code", "login_nodata",
     "login_notoken", "get_transport", "get_status", "get_code"}

\* The coroutine p issues a GET in this step.
IssuesGet(p) == procs'[p].gets > procs[p].gets

\* C1: whenever an authenticated GET is issued the client holds a token and
\* the current time is before the recorded expiry of that token, and an
\* invocation whose login was rejected ends with an error and returns
\* nothing.
C1_RequestsCarryUnexpiredToken ==
    [][\A p \in Procs :
          /\ IssuesGet(p) =>
                /\ Truthy(client'.token)
                /\ client'.expires_at # NoTime
                /\ now' < client'.expires_at[1]
          /\ (procs'[p].pc = "done" /\ procs'[p].seen \in RejectedLogins) =>
                /\ procs'[p].result # "ok"
                /\ procs'[p].ret = Nothing]_vars

\* C2: an invocation that finds a token whose expiry is at most 5 minutes
\* after the current time, or no token, or no expiry, issues a login
\* request; one that finds an expiry at least 5 minutes and 1 second after
\* the current time issues none.
C2_LoginExactlyWithinMargin ==
    \A p \in Procs :
        procs[p].pc # "idle" =>
            /\ procs[p].had \in {"absent", "inside", "edge"} =>
                   procs[p].logins = 1
            /\ procs[p].had = "outside" => procs[p].logins = 0

\* C2 witness: a token expiring exactly 5 minutes after the call was found
\* and the login request is in flight.
C2_Witness ==
    \E p \in Procs : procs[p].had = "edge" /\ procs[p].pc = "login_wait"

\* C3: a new client that restores the exported snapshot decides token
\* validity as the original does, at every current time.
C3_RoundTripKeepsValidity ==
    \A t \in Instants :
        token_valid(restore_tokens(NewClient, export_tokens(client)), t)
            = token_valid(client, t)

\* C4: the entry created by the wizard holds the token, the refresh token
\* and the expiry that the last accepted login of the flow granted.
C4_EntryHoldsGrantedToken ==
    flow.step = "create_entry" =>
        LET e == entries[Len(entries)]
            g == flow.granted[1]
        IN /\ e.token = g.token
           /\ e.refresh_token = g.refresh_token
           /\ e.token_expires_at # NoTime
           /\ e.token_expires_at[1] * MsPerSec = g.expires_ms

\* C5: a submission of step user with an email that is already configured
\* aborts the flow as already configured with no client constructed and no
\* request issued, and no email ever has two entries.
C5_ConfiguredEmailAborts ==
    /\ flow.dup =>
          /\ flow.step = "abort"
          /\ flow.reason = "already_configured"
          /\ ~flow.made
          /\ procs[Main] = IdleProc
    /\ \A i, j \in 1..Len(entries) :
          entries[i].email = entries[j].email => i = j

\* C5 witness: an entry exists and a submission with its email was aborted.
C5_Witness ==
    /\ flow.step = "abort"
    /\ flow.dup
    /\ Configured(entries, flow.email)

\* The submission of step user ends in this step with list_homes having
\* returned the list homes.
ListedHomes(homes) ==
    /\ flow.busy
    /\ ~flow'.busy
    /\ procs[Main].pc = "done"
    /\ procs[Main].op = "list_homes"
    /\ procs[Main].result = "ok"
    /\ procs[Main].ret = <<homes>>

\* C6: when the login succeeded and list_homes returned an empty list, step
\* user is shown again with the error no_homes, no per-flow state is stored
\* and no entry is created; step select_homes is only ever reached with a
\* stored list of homes that is not empty.
C6_NoHomesStaysOnUser ==
    [][/\ ListedHomes(<<>>) =>
             /\ flow'.step = "user"
             /\ flow'.errors = "no_homes"
             /\ flow'.saved = Nothing
             /\ entries' = entries
       /\ flow'.step \in {"select_homes", "create_entry"} =>
             /\ flow'.saved # Nothing
             /\ flow'.saved[1].homes # <<>>]_vars

\* C6 witness: the form of step user shows no_homes after an accepted login.
C6_Witness ==
    /\ flow.step = "user"
    /\ flow.errors = "no_homes"
    /\ flow.saved = Nothing
    /\ flow.granted # Nothing

\* The submission of step user ends in this step with a failed request.
SubmissionFailed ==
    /\ flow.busy
    /\ ~flow'.busy
    /\ procs[Main].pc = "done"
    /\ procs[Main].seen \in FailedRequests

\* C7: every failure of the login or of the home listing in step user shows
\* step user again with an inline error: auth_failed for an error of the
\* authentication layer, cannot_connect for a transport error.
C7_FailuresShowUserAgain ==
    [][SubmissionFailed =>
          /\ flow'.step = "user"
          /\ flow'.errors =
                IF procs[Main].seen \in {"login_transport", "get_transport"}
                THEN "cannot_connect"
                ELSE "auth_failed"]_vars

\* C8: a login answered with a status other than 200, a code other than 0
\* or no data field fails with HomGarApiError and leaves the token, the
\* refresh token and the expiry of the client as they were.
C8_RejectedLoginKeepsTokens ==
    [][\A p \in Procs :
          (procs[p].pc = "login_wait" /\ procs'[p].seen \in RejectedLogins) =>
              /\ client' = client
              /\ procs'[p].pc = "done"
              /\ procs'[p].result = "HomGarApiError"
              /\ procs'[p].logins = procs[p].logins]_vars

\* C8 witness: a login was rejected while the client held a token, and the
\* token is still held.
C8_Witness ==
    \E p \in Procs :
        /\ procs[p].pc = "done"
        /\ procs[p].seen \in RejectedLogins
        /\ procs[p].result = "HomGarApiError"
        /\ procs[p].had = "inside"
        /\ Truthy(client.token)

\* C9: a GET answered with a status other than 200 or a code other than 0
\* makes the call fail with an error; a GET call returns data only after an
\* answer with status 200 and code 0, and a failed call returns nothing.
C9_GetFailsOnStatusOrCode ==
    \A p \in Procs :
        procs[p].pc = "done" =>
            /\ procs[p].seen \in {"get_status", "get_code"} =>
                   procs[p].result = "HomGarApiError"
            /\ (procs[p].op \in GetOps /\ procs[p].result = "ok") =>
                   procs[p].seen = "get_accepted"
            /\ procs[p].result # "ok" => procs[p].ret = Nothing

\* C9 witness: get_device_status failed on a non-zero code under status 200.
C9_Witness ==
    \E p \in Procs :
        /\ procs[p].pc = "done"
        /\ procs[p].op = "get_device_status"
        /\ procs[p].seen = "get_code"
        /\ procs[p].result = "HomGarApiError"

\* C10: an invocation issues at most one login request and at most one GET
\* request, and once a request of it has failed the invocation is over with
\* the failure raised.
C10_OneAttemptPerRequest ==
    \A p \in Procs :
        /\ procs[p].logins <= 1
        /\ procs[p].gets <= 1
        /\ procs[p].seen \in FailedRequests =>
              /\ procs[p].pc = "done"
              /\ procs[p].result # "ok"

\* C10 witness: an invocation logged in once, sent its GET once, and the
\* GET failed.
C10_Witness ==
    \E p \in Procs :
        /\ procs[p].pc = "done"
        /\ procs[p].logins = 1
        /\ procs[p].gets = 1
        /\ procs[p].seen = "get_status"
        /\ procs[p].result = "HomGarApiError"

\* s is an initial part of t.
IsPrefix(s, t) == Len(s) <= Len(t) /\ s = SubSeq(t, 1, Len(s))

\* The record of the entry x is the same in the registries of h and g.
SameRecord(h, g, x) ==
    /\ HasRecord(h, x) = HasRecord(g, x)
    /\ HasRecord(h, x) => Records(h)[x] = Records(g)[x]

\* C11: a start-up takes its steps in the order restore, coordinator,
\* refresh, record, sensor: the record of an entry is written only by the
\* step that follows its successful first refresh, and the sensor platform
\* is activated only after that; when the first refresh fails the start-up
\* fails, the registry stays as it was and no sensor platform is activated.
C11_StartupOrder ==
    [][\A e \in EntryIds :
          /\ IsPrefix(life'[e].log, SetupOrder)
          /\ ~SameRecord(hass, hass', e) /\ HasRecord(hass', e) =>
                /\ life[e].pc = "refresh"
                /\ life'[e].refreshed = "ok"
                /\ life[e].log = SubSeq(SetupOrder, 1, 3)
          /\ (e \in hass'.sensors /\ e \notin hass.sensors) =>
                /\ life[e].pc = "forward"
                /\ HasRecord(hass, e)
          /\ (life[e].pc = "refresh" /\ life'[e].refreshed = "failed") =>
                /\ hass' = hass
                /\ life'[e].pc = "rest"
                /\ life'[e].setup = "failed"
                /\ life'[e].exc # ""]_vars

\* C11 witness: one entry went through all five steps and has its sensor
\* platform active, another failed in its first refresh and has neither a
\* record nor an active sensor platform.
C11_Witness ==
    \E e, x \in EntryIds :
        /\ life[e].pc = "rest" /\ life[e].setup = "ok"
        /\ life[e].log = SetupOrder
        /\ HasRecord(hass, e) /\ e \in hass.sensors
        /\ life[x].pc = "rest" /\ life[x].refreshed = "failed"
        /\ life[x].setup = "failed"
        /\ ~HasRecord(hass, x) /\ x \notin hass.sensors

\* C12: when a shutdown of an entry ends, the record of the entry is gone
\* if the host unloaded the platforms and is what it was if the host did
\* not, and the records of the other entries are what they were.
C12_ShutdownRemovesOwnRecord ==
    [][\A e \in EntryIds :
          (life[e].pc = "unloading" /\ life'[e].pc = "rest") =>
              /\ life'[e].unloaded = "ok" => ~HasRecord(hass', e)
              /\ life'[e].unloaded = "failed" => SameRecord(hass, hass', e)
              /\ \A x \in EntryIds \ {e} : SameRecord(hass, hass', x)]_vars

\* C12 witness: two entries had records; one was shut down with success and
\* has none now, the other was shut down without success and has kept its
\* record.
C12_Witness ==
    \E e, x \in EntryIds :
        /\ life[e].pc = "rest" /\ life[e].setup = "ok"
        /\ life[e].unloaded = "ok" /\ ~HasRecord(hass, e)
        /\ life[x].pc = "rest" /\ life[x].setup = "ok"
        /\ life[x].unloaded = "failed" /\ HasRecord(hass, x)

\* C19: whenever neither a start-up nor a shutdown of an entry is running,
\* the registry holds a record of the entry exactly if its last start-up
\* ended with success and no successful shutdown has followed it.
C19_RecordIffStartedUp ==
    \A e \in EntryIds :
        life[e].pc = "rest" =>
            (HasRecord(hass, e) <=> (life[e].setup = "ok" /\ ~life[e].shut))

\* The number of two-character slices after the prefix of a payload.
ByteCount(raw) == (Len(raw) - 3) \div 2

\* The slice of byte k (from 0) of the payload is the byte v.
ByteIs(raw, k, v) == int16(raw[2 * k + 4], raw[2 * k + 5]) = <<v>>

\* The framing of a payload is wrong: no prefix 10#, or an odd hex length.
BadFraming(raw) == ~startswith(raw, Prefix) \/ (Len(raw) - 3) % 2 # 0

\* The result of the decoder that has run, and the bytes it returned.
Out == dec.out[1]

Reading == Out.reading[1]

Byte(i) == At(Reading.raw_bytes, i)

\* C13: decode_rain fails exactly when the framing is wrong, there are
\* fewer than 24 bytes or one of the markers FD 04, FD 05, FD 06 and 97 is
\* not in its place; otherwise the raw values are the little-endian reads
\* at 5, 9, 13 and 18, every millimetre value is its raw value divided by
\* ten (25, 100, 400, 1000 give 2.5, 10.0, 40.0, 100.0) and the battery
\* code is byte22 * 256 + byte23.
C13_RainDecoding ==
    dec.fn = "decode_rain" =>
        /\ Out.error # "" <=>
              \/ BadFraming(dec.raw)
              \/ ByteCount(dec.raw) < 24
              \/ ~(ByteIs(dec.raw, 3, 253) /\ ByteIs(dec.raw, 4, 4))
              \/ ~(ByteIs(dec.raw, 7, 253) /\ ByteIs(dec.raw, 8, 5))
              \/ ~(ByteIs(dec.raw, 11, 253) /\ ByteIs(dec.raw, 12, 6))
              \/ ~ByteIs(dec.raw, 17, 151)
        /\ Out.error = "" =>
              /\ Reading.rain_last_hour_raw10 = Byte(5) + 256 * Byte(6)
              /\ Reading.rain_last_24h_raw10 = Byte(9) + 256 * Byte(10)
              /\ Reading.rain_last_7d_raw10 = Byte(13) + 256 * Byte(14)
              /\ Reading.rain_total_raw10 = Byte(18) + 256 * Byte(19)
              /\ Reading.rain_last_hour_mm
                     = div10(Reading.rain_last_hour_raw10)
              /\ Reading.rain_last_24h_mm = div10(Reading.rain_last_24h_raw10)
              /\ Reading.rain_last_7d_mm = div10(Reading.rain_last_7d_raw10)
              /\ Reading.rain_total_mm = div10(Reading.rain_total_raw10)
              /\ Reading.rain_last_hour_raw10 = 25 =>
                     Reading.rain_last_hour_mm
                         = [neg |-> FALSE, whole |-> 2, tenths |-> 5]
              /\ Reading.rain_last_24h_raw10 = 100 =>
                     Reading.rain_last_24h_mm
                         = [neg |-> FALSE, whole |-> 10, tenths |-> 0]
              /\ Reading.rain_last_7d_raw10 = 400 =>
                     Reading.rain_last_7d_mm
                         = [neg |-> FALSE, whole |-> 40, tenths |-> 0]
              /\ Reading.rain_total_raw10 = 1000 =>
                     Reading.rain_total_mm
                         = [neg |-> FALSE, whole |-> 100, tenths |-> 0]
              /\ Reading.battery_status_code = Byte(22) * 256 + Byte(23)

\* C14: decode_moisture_simple fails exactly when the framing is wrong,
\* there are fewer than 9 bytes or byte 5 is not 0x88; otherwise the RSSI
\* is byte 1 read as a signed 8-bit value and lies in -128..127, the
\* moisture is byte 6, and the battery code is byte7 * 256 + byte8 and lies
\* in 0..65535.
C14_MoistureSimpleDecoding ==
    dec.fn = "decode_moisture_simple" =>
        /\ Out.error # "" <=>
              \/ BadFraming(dec.raw)
              \/ ByteCount(dec.raw) < 9
              \/ ~ByteIs(dec.raw, 5, 136)
        /\ Out.error = "" =>
              /\ Reading.rssi_dbm
                     = IF Byte(1) < 128 THEN Byte(1) ELSE Byte(1) - 256
              /\ Reading.rssi_dbm \in -128..127
              /\ Reading.moisture_percent = Byte(6)
              /\ Reading.battery_status_code = Byte(7) * 256 + Byte(8)
              /\ Reading.battery_status_code \in 0..65535

\* C18: a reading returned by decode_moisture_simple or by
\* decode_moisture_full has a moisture percent from 0 to 100.
C18_MoisturePercentRange ==
    (dec.fn \in {"decode_moisture_simple", "decode_moisture_full"}
     /\ Out.error = "") =>
        Reading.moisture_percent \in 0..100

\* The caller p receives an accepted login in this step.
LoginAcceptedBy(p) ==
    /\ procs[p].pc = "login_wait"
    /\ procs'[p].pc # "login_wait"
    /\ procs'[p].seen = "login_accepted"

\* The expiry the response r gives at the time t: its ts if it has one and
\* else t, plus its tokenExpired seconds.
ExpiryOf(r, t) ==
    (IF r.ts # <<>> THEN r.ts[1] ELSE t) + token_expired_secs(r) * MsPerSec

\* C15: after an accepted login the client holds the token and the refresh
\* token of the response (none if the response has none) and the expiry
\* ts + tokenExpired, with the time of the login for a response without ts.
C15_LoginReplacesTokenState ==
    [][\A p \in Procs :
          LoginAcceptedBy(p) =>
              /\ client'.token = last'.resp[1].token
              /\ client'.refresh_token = last'.resp[1].refreshToken
              /\ client'.expires_at = <<ExpiryOf(last'.resp[1], now)>>]_vars

\* C16: a call that begins while no valid token is held issues a login
\* whatever the other caller is doing, and whenever a login has been
\* accepted the client holds the token state of the accepted login that
\* arrived last.
C16_LastLoginWins ==
    [][/\ \A p \in Procs :
             (procs[p].pc = "idle" /\ procs'[p].pc # "idle"
              /\ ~token_valid(client, now)) =>
                 /\ procs'[p].pc = "login_wait"
                 /\ procs'[p].logins = 1
       /\ last'.resp # <<>> =>
             /\ client'.token = last'.resp[1].token
             /\ client'.refresh_token = last'.resp[1].refreshToken
             /\ client'.expires_at
                    = <<login_base(last'.resp[1], last'.at)
                        + token_expired_secs(last'.resp[1]) * MsPerSec>>]_vars

\* C16 witness: both callers began without a valid token and had their
\* logins in flight together; both logins were accepted, with different
\* tokens, and the client holds the token of the one that arrived last.
C16_Witness ==
    /\ \A p \in Procs :
          /\ procs[p].had = "absent"
          /\ procs[p].logins = 1
          /\ procs[p].seen = "login_accepted"
    /\ last.overlapped
    /\ last.by = 1
    /\ procs[2].pc = "get_wait"
    /\ procs[2].auth = "tA"
    /\ last.resp[1].token = "tB"
    /\ client.token = "tB"

\* C17: no public call fails with the token-not-available error.
C17_HeadersNeverLackToken ==
    \A p \in Procs : procs[p].msg # "Token not available"

\* C20: a GET that fails leaves the token state of the client as it was,
\* and a call that begins more than 5 minutes before the recorded expiry
\* sends its GET with the token held, without a login.
C20_FailedGetKeepsTokens ==
    [][\A p \in Procs :
          /\ (procs[p].pc = "get_wait" /\ procs'[p].pc # "get_wait"
              /\ procs'[p].seen # "get_accepted") => client' = client
          /\ (procs[p].pc = "idle" /\ procs'[p].op \in GetOps
              /\ Truthy(client.token) /\ client.expires_at # <<>>
              /\ now < client.expires_at[1] - Margin) =>
                 /\ procs'[p].pc = "get_wait"
                 /\ procs'[p].auth = client.token
                 /\ procs'[p].logins = 0
                 /\ client' = client]_vars

\* C20 witness: after two failed GETs under one token state, a further call
\* has sent its GET with the same token and without a login.
C20_Witness ==
    \E p \in Procs :
        /\ last.fails = 2
        /\ last.resp # <<>>
        /\ procs[p].pc = "get_wait"
        /\ procs[p].logins = 0
        /\ procs[p].auth = last.resp[1].token
        /\ client.token = last.resp[1].token

====
